---- MODULE Spec2Model ----
(***************************************************************************)
(* The three Conan recipes of wysaid/CameraCapture as one state machine:   *)
(*   local : src/conanfile.py                                  (CcapConan) *)
(*   dist  : src/utils/conan/ccap/all/conanfile.py             (CcapConan) *)
(*   test  : src/utils/conan/ccap/all/test_package/conanfile.py            *)
(* A behaviour is one packaging run of one recipe: the package manager     *)
(* calls the recipe's methods in its lifecycle order, and every method is  *)
(* one action.  External calls (download, cmake, the consumer program) may *)
(* fail; a failure is a raised exception, which ends the method and the    *)
(* run.                                                                    *)
(***************************************************************************)
EXTENDS Naturals, Sequences, FiniteSets, TLC

VARIABLES
    recipe,           \* which recipe this run executes
    os,               \* self.settings.os
    cppstd,           \* self.settings.compiler.cppstd, 0 when not defined
    can_run_host,     \* the value can_run(self) returns
    options,          \* self.options: option name -> value, defined options only
    called,           \* the recipe methods invoked so far, in order
    status,           \* "running" | "done" | "invalid" | "failed"
    error,            \* the exception that ended the run, NoError if none
    variables,        \* tc.variables of the generated CMakeToolchain
    cache_variables,  \* tc.cache_variables of the generated CMakeToolchain
    log,              \* the tool and process calls performed, in order
    cpp_info,         \* self.cpp_info
    requires,         \* the references passed to self.requires
    bindirs           \* self.cpp.build.bindirs

vars == <<recipe, os, cppstd, can_run_host, options, called, status, error,
          variables, cache_variables, log, cpp_info, requires, bindirs>>

----------------------------------------------------------------------------
(* Inputs of a run *)

Recipes == {"local", "dist", "test"}

\* Values of settings.os: the three the recipes name, the three the
\* distribution recipe excludes, and two others.
OSValues == {"Windows", "Linux", "Macos", "iOS", "watchOS", "tvOS", "Android", "FreeBSD"}

\* Values of compiler.cppstd; 0 stands for "not defined".
CppStdValues == {0, 11, 14, 17, 20}

\* The output directories cmake_layout may declare (single / multi config).
BinDirValues == {".", "Release"}

LocalOptionNames == {"shared", "fPIC", "no_log"}

DistOptionNames == {"shared", "fPIC", "no_log", "enable_file_playback"}

MinCppStd == 17

ExcludedOS == {"iOS", "watchOS", "tvOS"}

InvalidReason == "ccap ConanCenter recipe currently targets desktop OSes"

MacosFrameworks == {"Foundation", "AVFoundation", "CoreVideo", "CoreMedia", "Accelerate"}

NoError == [kind |-> "", reason |-> ""]

EmptyMap == [k \in {} |-> TRUE]

EmptyCppInfo == [libs |-> {}, frameworks |-> {}, system_libs |-> {}, properties |-> EmptyMap]

\* The options a recipe declares.
DeclaredOptions(r) ==
    CASE r = "local" -> LocalOptionNames
      [] r = "dist"  -> DistOptionNames
      [] OTHER       -> {}

\* The methods the package manager calls on a recipe, in its order.
Lifecycle(r) ==
    CASE r = "local" -> <<"config_options", "layout", "generate", "build",
                          "package", "package_info">>
      [] r = "dist"  -> <<"config_options", "configure", "layout", "validate",
                          "source", "generate", "build", "package", "package_info">>
      [] OTHER       -> <<"requirements", "layout", "generators", "build", "test">>

----------------------------------------------------------------------------
(* Helpers *)

\* del self.options.<k> / self.options.rm_safe(k)
RmOption(opts, k) == [x \in (DOMAIN opts) \ {k} |-> opts[x]]

\* self.options.get_safe(k) is not None
HasOption(opts, k) == k \in DOMAIN opts

\* bool(self.options.get_safe(k)): None is falsy
GetSafeTrue(opts, k) == HasOption(opts, k) /\ opts[k] = TRUE

\* bool(v) of an option whose declared values are [True, False]
Bool(v) == (v = TRUE)

\* m[k] = v
Assign(m, k, v) == (k :> v) @@ m

Call(name, ok) == [call |-> name, arg |-> <<>>, env |-> "", ok |-> ok]

RunCall(path, env, ok) == [call |-> "run", arg |-> path, env |-> env, ok |-> ok]

\* Variant of Performed: a raising statement does not end the method.
Performed_continue(cs, oks) == [i \in 1..Len(cs) |-> Call(cs[i], oks[i])]

\* A sequence of statements, statement i raising iff ~oks[i]: the statements
\* up to and including the first one that raises are performed.
Performed(cs, oks) ==
    LET bad == {i \in 1..Len(cs) : ~oks[i]}
        n   == IF bad = {} THEN Len(cs)
               ELSE CHOOSE i \in bad : \A j \in bad : i <= j
    IN  [i \in 1..n |-> Call(cs[i], oks[i])]

AllOk(entries) == \A i \in 1..Len(entries) : entries[i].ok

\* The method the package manager calls next.
Enabled(r, m) ==
    /\ recipe = r
    /\ status = "running"
    /\ Len(called) < Len(Lifecycle(r))
    /\ Lifecycle(r)[Len(called) + 1] = m

\* The run's status after method m returned (ok) or raised.
StatusAfter(r, ok) ==
    IF ~ok THEN "failed"
    ELSE IF Len(called) + 1 = Len(Lifecycle(r)) THEN "done"
    ELSE "running"

ProcessError == [kind |-> "ConanException", reason |-> "external call failed"]

\* A method that performed `entries` and then returned or raised.
Finish(r, m, entries) ==
    /\ called' = Append(called, m)
    /\ log' = log \o entries
    /\ status' = StatusAfter(r, AllOk(entries))
    /\ error' = IF AllOk(entries) THEN NoError ELSE ProcessError

----------------------------------------------------------------------------
(* Initial state: the recipe object as constructed, every declared option   *)
(* defined and holding any of its values.                                   *)

Init ==
    /\ recipe \in Recipes
    /\ os \in OSValues
    /\ cppstd \in CppStdValues
    /\ can_run_host \in BOOLEAN
    /\ options \in [DeclaredOptions(recipe) -> BOOLEAN]
    /\ called = <<>>
    /\ status = "running"
    /\ error = NoError
    /\ variables = EmptyMap
    /\ cache_variables = EmptyMap
    /\ log = <<>>
    /\ cpp_info = EmptyCppInfo
    /\ requires = <<>>
    /\ bindirs = <<>>

----------------------------------------------------------------------------
(* Local recipe, src/conanfile.py *)

\* Variant of Local_config_options: the OS name is compared in lower case.
Local_config_options_lowercase ==
    /\ Enabled("local", "config_options")
    /\ options' = IF os = "windows" THEN RmOption(options, "fPIC") ELSE options
    /\ Finish("local", "config_options", <<>>)
    /\ UNCHANGED <<recipe, os, cppstd, can_run_host, variables, cache_variables,
                   cpp_info, requires, bindirs>>

Local_config_options ==
    /\ Enabled("local", "config_options")
    /\ options' = IF os = "Windows" THEN RmOption(options, "fPIC") ELSE options
    /\ Finish("local", "config_options", <<>>)
    /\ UNCHANGED <<recipe, os, cppstd, can_run_host, variables, cache_variables,
                   cpp_info, requires, bindirs>>

Local_layout ==
    /\ Enabled("local", "layout")
    /\ \E b \in BinDirValues : bindirs' = <<b>>
    /\ Finish("local", "layout", <<>>)
    /\ UNCHANGED <<recipe, os, cppstd, can_run_host, options, variables,
                   cache_variables, cpp_info, requires>>

\* Variant of Local_tc_variables: CCAP_BUILD_TESTS follows no_log.
Local_tc_variables_leak(opts) ==
    LET v1 == Assign(EmptyMap, "CCAP_BUILD_SHARED", opts["shared"])
        v2 == Assign(v1, "CCAP_NO_LOG", opts["no_log"])
        v3 == Assign(v2, "CCAP_BUILD_EXAMPLES", FALSE)
        v4 == Assign(v3, "CCAP_BUILD_TESTS", opts["no_log"])
        v5 == Assign(v4, "CCAP_INSTALL", TRUE)
    IN  v5

Local_tc_variables(opts) ==
    LET v1 == Assign(EmptyMap, "CCAP_BUILD_SHARED", opts["shared"])
        v2 == Assign(v1, "CCAP_NO_LOG", opts["no_log"])
        v3 == Assign(v2, "CCAP_BUILD_EXAMPLES", FALSE)
        v4 == Assign(v3, "CCAP_BUILD_TESTS", FALSE)
        v5 == Assign(v4, "CCAP_INSTALL", TRUE)
    IN  v5

Local_generate ==
    /\ Enabled("local", "generate")
    /\ variables' = Local_tc_variables(options)
    /\ Finish("local", "generate", <<Call("CMakeToolchain.generate", TRUE)>>)
    /\ UNCHANGED <<recipe, os, cppstd, can_run_host, options, cache_variables,
                   cpp_info, requires, bindirs>>

Local_build ==
    /\ Enabled("local", "build")
    /\ \E c_ok, b_ok \in BOOLEAN :
         Finish("local", "build",
                Performed(<<"cmake.configure", "cmake.build">>, <<c_ok, b_ok>>))
    /\ UNCHANGED <<recipe, os, cppstd, can_run_host, options, variables,
                   cache_variables, cpp_info, requires, bindirs>>

Local_package ==
    /\ Enabled("local", "package")
    /\ \E i_ok \in BOOLEAN :
         Finish("local", "package",
                Performed(<<"cmake.install", "copy LICENSE">>, <<i_ok, TRUE>>))
    /\ UNCHANGED <<recipe, os, cppstd, can_run_host, options, variables,
                   cache_variables, cpp_info, requires, bindirs>>

Local_cpp_info(o) ==
    [libs |-> {"ccap"},
     frameworks |-> IF o = "Macos" THEN MacosFrameworks ELSE {},
     system_libs |-> IF o # "Macos" /\ o = "Linux" THEN {"pthread"} ELSE {},
     properties |-> EmptyMap]

Local_package_info ==
    /\ Enabled("local", "package_info")
    /\ cpp_info' = Local_cpp_info(os)
    /\ Finish("local", "package_info", <<>>)
    /\ UNCHANGED <<recipe, os, cppstd, can_run_host, options, variables,
                   cache_variables, requires, bindirs>>

----------------------------------------------------------------------------
(* Distribution recipe, src/utils/conan/ccap/all/conanfile.py *)

Dist_config_options ==
    /\ Enabled("dist", "config_options")
    /\ options' = IF os = "Windows" THEN RmOption(options, "fPIC") ELSE options
    /\ Finish("dist", "config_options", <<>>)
    /\ UNCHANGED <<recipe, os, cppstd, can_run_host, variables, cache_variables,
                   cpp_info, requires, bindirs>>

\* Variant of Dist_configure: fPIC is kept for a shared build.
Dist_configure_keep_fPIC ==
    /\ Enabled("dist", "configure")
    /\ options' = options
    /\ Finish("dist", "configure", <<>>)
    /\ UNCHANGED <<recipe, os, cppstd, can_run_host, variables, cache_variables,
                   cpp_info, requires, bindirs>>

Dist_configure ==
    /\ Enabled("dist", "configure")
    /\ options' = IF GetSafeTrue(options, "shared") THEN RmOption(options, "fPIC")
                  ELSE options
    /\ Finish("dist", "configure", <<>>)
    /\ UNCHANGED <<recipe, os, cppstd, can_run_host, variables, cache_variables,
                   cpp_info, requires, bindirs>>

Dist_layout ==
    /\ Enabled("dist", "layout")
    /\ \E b \in BinDirValues : bindirs' = <<b>>
    /\ Finish("dist", "layout", <<>>)
    /\ UNCHANGED <<recipe, os, cppstd, can_run_host, options, variables,
                   cache_variables, cpp_info, requires>>

\* check_min_cppstd(self, min): the exception it raises, NoError if none.
check_min_cppstd(std, min) ==
    IF std = 0
    THEN [kind |-> "ConanInvalidConfiguration",
          reason |-> "The compiler.cppstd is not defined for this configuration"]
    ELSE IF std < min
    THEN [kind |-> "ConanInvalidConfiguration",
          reason |-> "Current cppstd is lower than the required C++ standard"]
    ELSE NoError

\* Variant of Dist_validate_error: tvOS is missing from the excluded set.
Dist_validate_error_no_tvOS(o, std) ==
    IF check_min_cppstd(std, MinCppStd) # NoError
    THEN check_min_cppstd(std, MinCppStd)
    ELSE IF o \in {"iOS", "watchOS"}
    THEN [kind |-> "ConanInvalidConfiguration", reason |-> InvalidReason]
    ELSE NoError

\* Variant of Dist_validate_error: the cppstd check is missing.
Dist_validate_error_no_cppstd(o, std) ==
    IF o \in ExcludedOS
    THEN [kind |-> "ConanInvalidConfiguration", reason |-> InvalidReason]
    ELSE NoError

\* The exception validate() raises for a target OS and cppstd, NoError if none.
Dist_validate_error(o, std) ==
    IF check_min_cppstd(std, MinCppStd) # NoError
    THEN check_min_cppstd(std, MinCppStd)
    ELSE IF o \in ExcludedOS
    THEN [kind |-> "ConanInvalidConfiguration", reason |-> InvalidReason]
    ELSE NoError

Dist_validate ==
    /\ Enabled("dist", "validate")
    /\ called' = Append(called, "validate")
    /\ error' = Dist_validate_error(os, cppstd)
    /\ status' = IF error' # NoError THEN "invalid" ELSE StatusAfter("dist", TRUE)
    /\ UNCHANGED <<recipe, os, cppstd, can_run_host, options, variables,
                   cache_variables, log, cpp_info, requires, bindirs>>

Dist_source ==
    /\ Enabled("dist", "source")
    /\ \E g_ok \in BOOLEAN :
         Finish("dist", "source", Performed(<<"get">>, <<g_ok>>))
    /\ UNCHANGED <<recipe, os, cppstd, can_run_host, options, variables,
                   cache_variables, cpp_info, requires, bindirs>>

\* Variant of Dist_tc_cache_variables: CCAP_BUILD_TESTS is switched on.
Dist_tc_cache_variables_tests_on(opts) ==
    LET v1 == Assign(EmptyMap, "CCAP_INSTALL", TRUE)
        v2 == Assign(v1, "CCAP_BUILD_EXAMPLES", FALSE)
        v3 == Assign(v2, "CCAP_BUILD_TESTS", TRUE)
        v4 == Assign(v3, "CCAP_BUILD_CLI", FALSE)
        v5 == Assign(v4, "CCAP_BUILD_CLI_STANDALONE", FALSE)
        v6 == Assign(v5, "CCAP_BUILD_SHARED", Bool(opts["shared"]))
        v7 == Assign(v6, "CCAP_NO_LOG", Bool(opts["no_log"]))
        v8 == Assign(v7, "CCAP_ENABLE_FILE_PLAYBACK", Bool(opts["enable_file_playback"]))
        v9 == IF HasOption(opts, "fPIC")
              THEN Assign(v8, "CMAKE_POSITION_INDEPENDENT_CODE", Bool(opts["fPIC"]))
              ELSE v8
    IN  v9

\* Variant of Dist_tc_cache_variables: the fPIC option is never forwarded.
Dist_tc_cache_variables_no_pic(opts) ==
    LET v1 == Assign(EmptyMap, "CCAP_INSTALL", TRUE)
        v2 == Assign(v1, "CCAP_BUILD_EXAMPLES", FALSE)
        v3 == Assign(v2, "CCAP_BUILD_TESTS", FALSE)
        v4 == Assign(v3, "CCAP_BUILD_CLI", FALSE)
        v5 == Assign(v4, "CCAP_BUILD_CLI_STANDALONE", FALSE)
        v6 == Assign(v5, "CCAP_BUILD_SHARED", Bool(opts["shared"]))
        v7 == Assign(v6, "CCAP_NO_LOG", Bool(opts["no_log"]))
        v8 == Assign(v7, "CCAP_ENABLE_FILE_PLAYBACK", Bool(opts["enable_file_playback"]))
    IN  v8

Dist_tc_cache_variables(opts) ==
    LET v1 == Assign(EmptyMap, "CCAP_INSTALL", TRUE)
        v2 == Assign(v1, "CCAP_BUILD_EXAMPLES", FALSE)
        v3 == Assign(v2, "CCAP_BUILD_TESTS", FALSE)
        v4 == Assign(v3, "CCAP_BUILD_CLI", FALSE)
        v5 == Assign(v4, "CCAP_BUILD_CLI_STANDALONE", FALSE)
        v6 == Assign(v5, "CCAP_BUILD_SHARED", Bool(opts["shared"]))
        v7 == Assign(v6, "CCAP_NO_LOG", Bool(opts["no_log"]))
        v8 == Assign(v7, "CCAP_ENABLE_FILE_PLAYBACK", Bool(opts["enable_file_playback"]))
        v9 == IF HasOption(opts, "fPIC")
              THEN Assign(v8, "CMAKE_POSITION_INDEPENDENT_CODE", Bool(opts["fPIC"]))
              ELSE v8
    IN  v9

Dist_generate ==
    /\ Enabled("dist", "generate")
    /\ cache_variables' = Dist_tc_cache_variables(options)
    /\ Finish("dist", "generate",
              <<Call("CMakeDeps.generate", TRUE), Call("CMakeToolchain.generate", TRUE)>>)
    /\ UNCHANGED <<recipe, os, cppstd, can_run_host, options, variables,
                   cpp_info, requires, bindirs>>

Dist_build ==
    /\ Enabled("dist", "build")
    /\ \E c_ok, b_ok \in BOOLEAN :
         Finish("dist", "build",
                Performed(<<"cmake.configure", "cmake.build">>, <<c_ok, b_ok>>))
    /\ UNCHANGED <<recipe, os, cppstd, can_run_host, options, variables,
                   cache_variables, cpp_info, requires, bindirs>>

Dist_package ==
    /\ Enabled("dist", "package")
    /\ \E i_ok \in BOOLEAN :
         Finish("dist", "package",
                Performed(<<"copy LICENSE", "cmake.install">>, <<TRUE, i_ok>>))
    /\ UNCHANGED <<recipe, os, cppstd, can_run_host, options, variables,
                   cache_variables, cpp_info, requires, bindirs>>

\* collect_libs(self) of the installed package: the one library upstream installs.
\* Neither frameworks nor system_libs are touched by this package_info.
Dist_cpp_info(o) ==
    [libs |-> {"ccap"},
     frameworks |-> {},
     system_libs |-> {},
     properties |-> Assign(Assign(Assign(EmptyMap, "cmake_file_name", "ccap"),
                                  "cmake_target_name", "ccap::ccap"),
                           "pkg_config_name", "ccap")]

Dist_package_info ==
    /\ Enabled("dist", "package_info")
    /\ cpp_info' = Dist_cpp_info(os)
    /\ Finish("dist", "package_info", <<>>)
    /\ UNCHANGED <<recipe, os, cppstd, can_run_host, options, variables,
                   cache_variables, requires, bindirs>>

----------------------------------------------------------------------------
(* Verification recipe, src/utils/conan/ccap/all/test_package/conanfile.py *)

\* self.tested_reference_str: the package under test
TestedReference == "ccap"

Test_requirements ==
    /\ Enabled("test", "requirements")
    /\ requires' = Append(requires, TestedReference)
    /\ Finish("test", "requirements", <<>>)
    /\ UNCHANGED <<recipe, os, cppstd, can_run_host, options, variables,
                   cache_variables, cpp_info, bindirs>>

Test_layout ==
    /\ Enabled("test", "layout")
    /\ \E b \in BinDirValues : bindirs' = <<b>>
    /\ Finish("test", "layout", <<>>)
    /\ UNCHANGED <<recipe, os, cppstd, can_run_host, options, variables,
                   cache_variables, cpp_info, requires>>

\* generators = "CMakeDeps", "CMakeToolchain", "VirtualRunEnv"
Test_generators ==
    /\ Enabled("test", "generators")
    /\ Finish("test", "generators",
              <<Call("CMakeDeps.generate", TRUE), Call("CMakeToolchain.generate", TRUE),
                Call("VirtualRunEnv.generate", TRUE)>>)
    /\ UNCHANGED <<recipe, os, cppstd, can_run_host, options, variables,
                   cache_variables, cpp_info, requires, bindirs>>

Test_build ==
    /\ Enabled("test", "build")
    /\ \E c_ok, b_ok \in BOOLEAN :
         Finish("test", "build",
                Performed(<<"cmake.configure", "cmake.build">>, <<c_ok, b_ok>>))
    /\ UNCHANGED <<recipe, os, cppstd, can_run_host, options, variables,
                   cache_variables, cpp_info, requires, bindirs>>

\* os.path.join(self.cpp.build.bindirs[0], "test_package"), as path components
Test_bin_path(dirs) == <<dirs[1], "test_package">>

\* Variant of Test_test_calls: the can_run guard is missing.
Test_test_calls_unguarded(runnable, dirs, r_ok) ==
    <<RunCall(Test_bin_path(dirs), "conanrun", r_ok)>>

\* The calls test() performs when the consumer program's run has outcome r_ok.
Test_test_calls(runnable, dirs, r_ok) ==
    IF runnable THEN <<RunCall(Test_bin_path(dirs), "conanrun", r_ok)>> ELSE <<>>

Test_test ==
    /\ Enabled("test", "test")
    /\ \E r_ok \in BOOLEAN :
         Finish("test", "test", Test_test_calls(can_run_host, bindirs, r_ok))
    /\ UNCHANGED <<recipe, os, cppstd, can_run_host, options, variables,
                   cache_variables, cpp_info, requires, bindirs>>

----------------------------------------------------------------------------

Next ==
    \/ Local_config_options
    \/ Local_layout
    \/ Local_generate
    \/ Local_build
    \/ Local_package
    \/ Local_package_info
    \/ Dist_config_options
    \/ Dist_configure
    \/ Dist_layout
    \/ Dist_validate
    \/ Dist_source
    \/ Dist_generate
    \/ Dist_build
    \/ Dist_package
    \/ Dist_package_info
    \/ Test_requirements
    \/ Test_layout
    \/ Test_generators
    \/ Test_build
    \/ Test_test

Spec == Init /\ [][Next]_vars

----------------------------------------------------------------------------
(* Properties *)

\* Method m has been invoked in this run.
Called(m) == \E i \in 1..Len(called) : called[i] = m

\* Some performed call has the name c.
Logged(c) == \E i \in 1..Len(log) : log[i].call = c

\* The build variables the toolchain generation produced.
GeneratedVars == variables @@ cache_variables

\* The build variables recipe r generates for the option set opts.
GenerateFor(r, opts) ==
    IF r = "local" THEN Local_tc_variables(opts) ELSE Dist_tc_cache_variables(opts)

CppStdMet == cppstd # 0 /\ cppstd >= MinCppStd

PIC == "CMAKE_POSITION_INDEPENDENT_CODE"

\* C1: in the distribution recipe, with the C++17 requirement met, validate()
\* accepts every target OS other than iOS, watchOS and tvOS, and rejects each
\* of those three with an invalid-configuration error whose reason is not
\* empty.
C1_ValidateGate ==
    (recipe = "dist" /\ Called("validate") /\ CppStdMet) =>
        IF os \in {"iOS", "watchOS", "tvOS"}
        THEN /\ status = "invalid"
             /\ error.kind = "ConanInvalidConfiguration"
             /\ error.reason # ""
        ELSE /\ status # "invalid"
             /\ error.kind # "ConanInvalidConfiguration"

C1_Witness ==
    /\ recipe = "dist" /\ Called("validate") /\ CppStdMet
    /\ os = "watchOS" /\ status = "invalid" /\ error.reason = InvalidReason

\* C2: in the distribution recipe, once config_options and configure have
\* run, an option set with shared = true has no fPIC entry, in every later
\* step of the run (generate, build, package, package_info).
C2_SharedDropsFPIC ==
    (recipe = "dist" /\ Called("configure") /\ options["shared"] = TRUE) =>
        ~HasOption(options, "fPIC")

C2_Witness ==
    /\ recipe = "dist" /\ os = "Linux" /\ options["shared"] = TRUE
    /\ Called("package_info") /\ ~HasOption(options, "fPIC")

\* C3 as stated: on a Windows target no recipe's option set contains an fPIC
\* entry at any point of the run, the state before config_options included.
C3_NoFPICOnWindowsAtAnyPoint ==
    (recipe \in {"local", "dist"} /\ os = "Windows") => ~HasOption(options, "fPIC")

\* C3 as amended: on a Windows target, once config_options has run, no
\* recipe's option set contains an fPIC entry, for every value of shared,
\* no_log and enable_file_playback.
C3_NoFPICOnWindowsAfterConfigOptions ==
    (recipe \in {"local", "dist"} /\ os = "Windows" /\ Called("config_options")) =>
        ~HasOption(options, "fPIC")

C3_Witness ==
    /\ recipe = "local" /\ os = "Windows" /\ Called("generate")
    /\ options["shared"] = FALSE /\ ~HasOption(options, "fPIC")

\* C4: in the local and the distribution recipe, with no_log = true the
\* generated build variables contain CCAP_NO_LOG = true, and the build
\* variables generated for the configuration that differs only in no_log
\* have the same names and, CCAP_NO_LOG apart, the same values.
C4_NoLogFrame ==
    (recipe \in {"local", "dist"} /\ Called("generate")) =>
        LET other == GenerateFor(recipe, [options EXCEPT !["no_log"] = ~@])
        IN  /\ "CCAP_NO_LOG" \in DOMAIN GeneratedVars
            /\ GeneratedVars["CCAP_NO_LOG"] = options["no_log"]
            /\ other["CCAP_NO_LOG"] = ~options["no_log"]
            /\ DOMAIN other = DOMAIN GeneratedVars
            /\ \A k \in (DOMAIN GeneratedVars) \ {"CCAP_NO_LOG"} :
                 other[k] = GeneratedVars[k]

C4_Witness ==
    /\ recipe = "local" /\ Called("generate") /\ options["no_log"] = TRUE
    /\ GeneratedVars["CCAP_NO_LOG"] = TRUE /\ GeneratedVars["CCAP_BUILD_TESTS"] = FALSE

\* C5: the link info package_info publishes has exactly the five frameworks
\* and no system library on Macos, exactly pthread and no framework on Linux,
\* and neither on every other OS, in the local and in the distribution recipe.
C5_LinkInfoPerOS ==
    (recipe \in {"local", "dist"} /\ Called("package_info")) =>
        /\ cpp_info.frameworks =
             IF os = "Macos"
             THEN {"Foundation", "AVFoundation", "CoreVideo", "CoreMedia", "Accelerate"}
             ELSE {}
        /\ cpp_info.system_libs = IF os = "Linux" THEN {"pthread"} ELSE {}

\* C6: in the verification recipe the build step (configure, then build) runs
\* before the test step; on a runnable target the test step executes
\* <bindir>/test_package with the conanrun environment and the run succeeds
\* iff that program exits 0; on a target that cannot run the binaries the
\* build is still performed, the program is never executed and the run
\* succeeds.
C6_BuildThenTest ==
    (recipe = "test") =>
        /\ ~can_run_host => ~Logged("run")
        /\ Called("test") =>
             /\ \E i, j \in 1..Len(called) :
                  i < j /\ called[i] = "build" /\ called[j] = "test"
             /\ \E i, j \in 1..Len(log) :
                  /\ i < j
                  /\ log[i] = Call("cmake.configure", TRUE)
                  /\ log[j] = Call("cmake.build", TRUE)
                  /\ \A k \in 1..Len(log) : log[k].call = "run" => j < k
             /\ IF can_run_host
                THEN /\ log[Len(log)].call = "run"
                     /\ log[Len(log)].arg = <<bindirs[1], "test_package">>
                     /\ log[Len(log)].env = "conanrun"
                     /\ (status = "done") = log[Len(log)].ok
                     /\ (status = "failed") = ~log[Len(log)].ok
                ELSE status = "done"

C6_Witness ==
    /\ recipe = "test" /\ ~can_run_host /\ Called("test")
    /\ Logged("cmake.build") /\ ~Logged("run") /\ status = "done"

\* C7: in a run of the distribution recipe with an invalid configuration
\* (cppstd requirement of 17 unmet, or target OS iOS, watchOS or tvOS) no
\* source fetch, toolchain generation, configure, build, install or
\* package_info is ever performed, and validate ends the run as invalid.
C7_InvalidBeforeBuild ==
    (recipe = "dist" /\ (~CppStdMet \/ os \in {"iOS", "watchOS", "tvOS"})) =>
        /\ log = <<>>
        /\ variables = EmptyMap /\ cache_variables = EmptyMap
        /\ cpp_info = EmptyCppInfo
        /\ \A m \in {"source", "generate", "build", "package", "package_info"} :
             ~Called(m)
        /\ Called("validate") =>
             status = "invalid" /\ error.kind = "ConanInvalidConfiguration"

C7_Witness ==
    /\ recipe = "dist" /\ cppstd = 14 /\ os = "Linux"
    /\ Called("validate") /\ status = "invalid" /\ log = <<>>

\* The recipe method that performs the call c.
MethodOf(c) ==
    CASE c \in {"cmake.configure", "cmake.build"} -> "build"
      [] c \in {"cmake.install", "copy LICENSE"} -> "package"
      [] c = "get" -> "source"
      [] c = "run" -> "test"
      [] c = "VirtualRunEnv.generate" -> "generators"
      [] OTHER -> IF recipe = "test" THEN "generators" ELSE "generate"

\* C8: in all three recipes a failed external call is the last thing the run
\* does: no call and no recipe method follows it (no build after a failed
\* configure, no license copy after a failed install in the local recipe),
\* no call is performed twice, and the run ends in failure.
C8_FailureEndsRun ==
    /\ \A i \in 1..Len(log) :
         ~log[i].ok =>
            /\ i = Len(log)
            /\ status = "failed"
            /\ error # NoError
            /\ called[Len(called)] = MethodOf(log[i].call)
    /\ \A i, j \in 1..Len(log) : log[i].call = log[j].call => i = j
    /\ status = "failed" => Len(log) > 0 /\ ~log[Len(log)].ok

C8_Witness ==
    /\ recipe = "local" /\ status = "failed"
    /\ log[Len(log)] = Call("cmake.install", FALSE)
    /\ ~Logged("copy LICENSE")

\* The build variables of the distribution recipe contain every variable the
\* local recipe generates for the same options, with the same value.
DistContainsLocal ==
    LET loc == Local_tc_variables(options)
    IN  /\ loc["CCAP_BUILD_SHARED"] = options["shared"]
        /\ loc["CCAP_NO_LOG"] = options["no_log"]
        /\ loc["CCAP_BUILD_EXAMPLES"] = FALSE
        /\ loc["CCAP_BUILD_TESTS"] = FALSE
        /\ loc["CCAP_INSTALL"] = TRUE
        /\ \A k \in DOMAIN loc :
             k \in DOMAIN cache_variables /\ cache_variables[k] = loc[k]

\* The variables the distribution recipe generates beyond the local set.
DistAdditional == (DOMAIN cache_variables) \ (DOMAIN Local_tc_variables(options))

\* C9 as stated: the distribution recipe's build variables contain the local
\* recipe's, and beyond them four additional toggles whose value is false
\* whatever the options are.
C9_FourAdditionalFixedOff ==
    (recipe = "dist" /\ Called("generate")) =>
        /\ DistContainsLocal
        /\ \E S \in SUBSET DistAdditional :
             Cardinality(S) = 4 /\ \A k \in S : cache_variables[k] = FALSE

\* C9 as amended: the distribution recipe's build variables contain the local
\* recipe's, and beyond them two toggles that are false whatever the options
\* are (CCAP_BUILD_CLI, CCAP_BUILD_CLI_STANDALONE), CCAP_ENABLE_FILE_PLAYBACK
\* with the value of enable_file_playback and, iff fPIC is defined,
\* CMAKE_POSITION_INDEPENDENT_CODE with the value of fPIC.
C9_TwoAdditionalFixedOff ==
    (recipe = "dist" /\ Called("generate")) =>
        /\ DistContainsLocal
        /\ DistAdditional =
             {"CCAP_BUILD_CLI", "CCAP_BUILD_CLI_STANDALONE", "CCAP_ENABLE_FILE_PLAYBACK"}
               \cup (IF HasOption(options, "fPIC") THEN {PIC} ELSE {})
        /\ cache_variables["CCAP_BUILD_CLI"] = FALSE
        /\ cache_variables["CCAP_BUILD_CLI_STANDALONE"] = FALSE
        /\ cache_variables["CCAP_ENABLE_FILE_PLAYBACK"] = options["enable_file_playback"]
        /\ HasOption(options, "fPIC") => cache_variables[PIC] = options["fPIC"]

C9_Witness ==
    /\ recipe = "dist" /\ Called("generate")
    /\ options["enable_file_playback"] = TRUE
    /\ cache_variables["CCAP_ENABLE_FILE_PLAYBACK"] = TRUE
    /\ cache_variables["CCAP_BUILD_CLI"] = FALSE
    /\ HasOption(options, "fPIC") /\ cache_variables[PIC] = TRUE

\* C10: in the distribution recipe the generated build variables contain
\* CMAKE_POSITION_INDEPENDENT_CODE iff the target OS is not Windows and
\* shared is false, and then with the value of the fPIC option; the local
\* recipe never generates it and, on a target other than Windows, keeps its
\* fPIC option whatever shared is.
C10_PICVariable ==
    /\ (recipe = "dist" /\ Called("generate")) =>
         /\ (PIC \in DOMAIN GeneratedVars) = (os # "Windows" /\ options["shared"] = FALSE)
         /\ PIC \in DOMAIN GeneratedVars =>
              HasOption(options, "fPIC") /\ GeneratedVars[PIC] = options["fPIC"]
    /\ recipe = "local" =>
         /\ PIC \notin DOMAIN GeneratedVars
         /\ os # "Windows" => HasOption(options, "fPIC")

C10_Witness ==
    /\ recipe = "dist" /\ Called("generate") /\ os = "Macos"
    /\ options["shared"] = FALSE /\ options["fPIC"] = FALSE
    /\ PIC \in DOMAIN GeneratedVars /\ GeneratedVars[PIC] = FALSE

====
